---- MODULE Spec2Model ----
(***************************************************************************)
(* left_right_struct: one WriteHandle, many ReadHandles over two buffers.  *)
(* Every atomic access of the source is one step of the thread that makes  *)
(* it; steps of the writer thread and of the reader threads interleave.    *)
(***************************************************************************)
EXTENDS Naturals, Integers, Sequences, FiniteSets, TLC

\* ------------------------------------------------------------------ bounds
MaxNodes == 3      \* reader nodes ever allocated (the root and its clones)
MaxOps   == 2      \* mutate calls over a run
MaxEpoch == 4      \* cap of the sum of all epoch counters (two outermost reads)
MaxNest  == 2      \* nested guards held by one handle

Nodes   == 1..MaxNodes
Buffers == {1, 2}            \* 1 = read_ptr, 2 = write_ptr of create_handles_from_raw
NullPtr == 0                 \* ptr::null_mut(), the clone placeholder
None    == 0                 \* Option::None of an Arc<ReadHandleInner>
NoEpoch == -1                \* key absent from the epoch_counters map
Addrs   == 1..MaxNodes       \* addresses the allocator hands out for nodes
NullAddr == 0                \* a node not allocated yet has no address
Ops     == 1..MaxOps         \* T::Operation: the k-th closure passed to mutate pushes k

RECURSIVE SeqsUpTo(_)
SeqsUpTo(n) ==
  IF n = 0 THEN {<<>>}
  ELSE LET S == SeqsUpTo(n - 1)
       IN S \cup {Append(s, o) : s \in {t \in S : Len(t) = n - 1}, o \in Ops}

Values == SeqsUpTo(MaxOps)

IsPrefix(s, t) == Len(s) <= Len(t) /\ SubSeq(t, 1, Len(s)) = s

VARIABLES
  \* buffers
  content,            \* content[b]: the value stored in buffer b
  freed,              \* freed[b]: how many times Box::from_raw(b) was dropped
  \* WriteHandle
  writer_pointer, reader_pointer, operations_log, read_handle_inner,
  wpc,                \* position of the writer thread
  wcur,               \* local `reader` / `current_reader` of the walks
  wnr,                \* local `next_reader_ptr` of the prune loop
  wnn,                \* `next_reader.next.load_full()` handed to compare_and_swap
  epoch_counters,     \* the HashMap of get_epoch_counters, keyed by address
  \* ReadHandleInner (one per node)
  node_pointer,       \* ReadHandleInner::reader_pointer
  epoch_counter, is_active, next,
  reader_counter,     \* the shared Arc<AtomicUsize>
  allocated,          \* nodes whose Arc strong count is above zero
  addr,               \* addr[n]: the address Arc::as_ptr gives for node n
  made,               \* number of nodes allocated so far
  \* ReadHandle (handle h owns node h)
  hpc,                \* position of the thread using handle h
  ref_counter,        \* ReadHandle::ref_counter
  guards,             \* guards[h][b]: outstanding Guards of h borrowing buffer b
  old_next, new, loaded,   \* locals of clone_as_ptr run on handle h
  \* history
  mutated,            \* mutate calls so far
  published,          \* as_ref() value when the last full publish returned
  bcast,              \* value broadcast by the last finished update_reader_pointers
  floor,              \* floor[h]: bcast when the reference() in progress on h began
  recorded,           \* recorded[a]: the node whose epoch the snapshot stored under a
  quiet               \* no reader handle was dropped since publish began

wvars == <<writer_pointer, reader_pointer, operations_log, read_handle_inner,
           wpc, wcur, wnr, wnn, epoch_counters>>
nvars == <<node_pointer, epoch_counter, is_active, next, reader_counter,
           allocated, made, addr>>
hvars == <<hpc, ref_counter, guards, old_next, new, loaded>>
bvars == <<content, freed>>
histvars == <<mutated, published, bcast, floor, recorded, quiet>>
vars == <<bvars, wvars, nvars, hvars, histvars>>

NoPub == <<0>>     \* no publish has replayed yet (0 is no operation)

\* ------------------------------------------------------------ Mutator
\* impl_simple_mutator!(String) with the tests' operation |s| s.push(c)
apply_operation(v, op) == Append(v, op)

mutate_log(op, log) == log

\* Mutator::mutate: apply_operation then mutate_log; <<value, log>>
MutatorMutate(v, op, log) == <<apply_operation(v, op), mutate_log(op, log)>>

RECURSIVE Replay(_, _)
\* the `for operation in operations` loop of publish
Replay(v, log) ==
  IF log = <<>> THEN v ELSE Replay(apply_operation(v, Head(log)), Tail(log))

\* A write through a pointer: to a live buffer it stores v; to a freed buffer
\* it is undefined behaviour and the buffer may afterwards hold anything.
WriteBuffer(b, v) ==
  IF freed[b] = 0 THEN content' = [content EXCEPT ![b] = v]
  ELSE \E any \in Values : content' = [content EXCEPT ![b] = any]

\* --------------------------------------------------- Arc reference counts
\* a comparison that always succeeds: every compare_and_swap stores
option_ptr_compare_always(first, second) == TRUE

\* option_ptr_compare: pointer equality of two Option<Arc>
option_ptr_compare(first, second) == first = second

\* The nodes some owner holds an Arc to: ReadHandle::inner, the locals of a
\* running clone_as_ptr, WriteHandle::read_handle_inner and the writer's locals.
Holders(hp, nw, on, root, cur, nr, nn) ==
  ({h \in Nodes : hp[h] \notin {"unborn", "gone"}}
     \cup {nw[h] : h \in Nodes} \cup {on[h] : h \in Nodes}
     \cup {root, cur, nr, nn}) \ {None}

RECURSIVE Reach(_, _, _)
Reach(S, nx, k) ==
  IF k = 0 THEN S
  ELSE Reach(S \cup ({nx[n] : n \in S} \ {None}), nx, k - 1)

\* impl Drop for ReadHandleInner, run for every node whose last Arc went away
\* in this step: compare_exchange(1, 0) on reader_counter, then free the buffer.
DropNodes(allocIn, counterIn, freedIn) ==
  LET live  == Reach(Holders(hpc', new', old_next', read_handle_inner',
                             wcur', wnr', wnn'), next', MaxNodes + 1)
      dying == allocIn \ live
  IN /\ allocated' = allocIn \cap live
     /\ IF dying # {} /\ counterIn = 1
        THEN LET n == CHOOSE d \in dying : TRUE
             IN /\ reader_counter' = 0
                /\ freed' = [freedIn EXCEPT ![node_pointer'[n]] = @ + 1]
        ELSE /\ reader_counter' = counterIn
             /\ freed' = freedIn

\* ------------------------------------------------------------------ Init
\* create_handles_from_default / create_handles_from_raw
Init ==
  /\ content = [b \in Buffers |-> <<>>]
  /\ freed = [b \in Buffers |-> 0]
  /\ writer_pointer = 2
  /\ reader_pointer = 1
  /\ operations_log = <<>>
  /\ read_handle_inner = 1
  /\ wpc = "idle"
  /\ wcur = None /\ wnr = None /\ wnn = None
  /\ epoch_counters = [a \in Addrs |-> NoEpoch]
  /\ node_pointer = [n \in Nodes |-> IF n = 1 THEN 1 ELSE NullPtr]
  /\ epoch_counter = [n \in Nodes |-> 0]
  /\ is_active = [n \in Nodes |-> n = 1]
  /\ next = [n \in Nodes |-> None]
  /\ reader_counter = 1
  /\ allocated = {1}
  /\ made = 1
  /\ addr = [n \in Nodes |-> IF n = 1 THEN 1 ELSE NullAddr]
  /\ hpc = [h \in Nodes |-> IF h = 1 THEN "idle" ELSE "unborn"]
  /\ ref_counter = [h \in Nodes |-> 0]
  /\ guards = [h \in Nodes |-> [b \in Buffers |-> 0]]
  /\ old_next = [h \in Nodes |-> None]
  /\ new = [h \in Nodes |-> None]
  /\ loaded = [h \in Nodes |-> NullPtr]
  /\ mutated = 0
  /\ published = NoPub
  /\ bcast = <<>>
  /\ floor = [h \in Nodes |-> <<>>]
  /\ recorded = [a \in Addrs |-> None]
  /\ quiet = TRUE

\* The handles that exist: constructed or returned by clone(), and not dropped
LiveHandles == {h \in Nodes : hpc[h] \notin {"unborn", "gone"}}

\* Steps that release no Arc and free nothing
KeepNodes == UNCHANGED <<reader_counter, allocated, made, addr, freed>>

\* ------------------------------------------------------------ WriteHandle
\* mutate writing through the pointer the readers use
MutateTargetFront == reader_pointer

\* WriteHandle::mutate, line 42: the buffer mutate writes
MutateTarget == writer_pointer

\* WriteHandle::mutate. The operations of a run are distinct closures: the
\* k-th call passes operation k, so that a replay out of order shows.
Mutate(op) ==
  /\ wpc = "idle"
  /\ op = mutated + 1
  /\ LET r == MutatorMutate(content[MutateTarget], op, operations_log)
     IN /\ WriteBuffer(MutateTarget, r[1])
        /\ operations_log' = Append(r[2], op)
  /\ mutated' = mutated + 1
  /\ UNCHANGED <<freed, writer_pointer, reader_pointer, read_handle_inner, wpc,
                 wcur, wnr, wnn, epoch_counters, nvars, hvars,
                 published, bcast, floor, recorded, quiet>>

\* publish without the test of the staged log
PublishReturnsEarlyNoLogTest == read_handle_inner = None

\* WriteHandle::publish, lines 50-56: the conditions of the two early returns
PublishReturnsEarly == read_handle_inner = None \/ operations_log = <<>>

\* WriteHandle::publish, lines 50-58: the two early returns, else enter
\* remove_first_dead_readers with current_reader_ptr = clone_read_handle()
PublishEnter ==
  /\ wpc = "idle"
  /\ IF PublishReturnsEarly
     THEN UNCHANGED <<wpc, wcur, quiet>>
     ELSE /\ wpc' = "head" /\ wcur' = read_handle_inner
          /\ quiet' = TRUE
  /\ UNCHANGED <<bvars, writer_pointer, reader_pointer, operations_log,
                 read_handle_inner, wnr, wnn, epoch_counters, nvars, hvars,
                 mutated, published, bcast, floor, recorded>>

\* Entering the walks after remove_first_dead_readers stored the root `r`
AfterHead(r) ==
  IF r = None THEN wpc' = "swap" /\ wcur' = None
  ELSE wpc' = "bc_swap" /\ wcur' = r

\* a head pruning that takes every node for active
HeadIsDeadNever(n) == FALSE

\* WriteHandle::remove_first_dead_readers, line 148: !current_reader.is_active()
HeadIsDead(n) == ~is_active[n]

\* WriteHandle::remove_first_dead_readers, one iteration of the loop, and the
\* final store to read_handle_inner
HeadStep ==
  /\ wpc = "head"
  /\ IF wcur # None /\ HeadIsDead(wcur)
     THEN /\ wcur' = next[wcur]
          /\ UNCHANGED <<wpc, read_handle_inner>>
     ELSE /\ read_handle_inner' = wcur
          /\ AfterHead(wcur)
  /\ UNCHANGED <<content, writer_pointer, reader_pointer, operations_log,
                 wnr, wnn, epoch_counters, node_pointer, epoch_counter,
                 is_active, next, made, addr, hvars, histvars>>
  /\ DropNodes(allocated, reader_counter, freed)

\* the broadcast handing out the pointer the readers already hold
BroadcastTargetStale == reader_pointer

\* WriteHandle::update_reader_pointers, line 85: the pointer handed to swap_pointer
BroadcastTarget == writer_pointer

\* the broadcast walk stopping after the root
BroadcastSuccessorNone(n) == None

\* WriteHandle::update_reader_pointers, line 87: the node the walk visits after n
BroadcastSuccessor(n) == next[n]

\* WriteHandle::update_reader_pointers: reader.swap_pointer(writer_pointer)
BcSwap ==
  /\ wpc = "bc_swap"
  /\ node_pointer' = [node_pointer EXCEPT ![wcur] = BroadcastTarget]
  /\ wpc' = "bc_next"
  /\ UNCHANGED <<bvars, writer_pointer, reader_pointer, operations_log,
                 read_handle_inner, wcur, wnr, wnn, epoch_counters,
                 epoch_counter, is_active, next, hvars, histvars>>
  /\ KeepNodes

\* WriteHandle::update_reader_pointers: reader_option = reader.next.load_full()
BcNext ==
  /\ wpc = "bc_next"
  /\ IF BroadcastSuccessor(wcur) # None
     THEN /\ wcur' = BroadcastSuccessor(wcur)
          /\ wpc' = "bc_swap"
          /\ UNCHANGED <<bcast, epoch_counters, recorded>>
     ELSE /\ wcur' = read_handle_inner
          /\ wpc' = "ep_read"
          /\ bcast' = content[writer_pointer]
          /\ epoch_counters' = [a \in Addrs |-> NoEpoch]
          /\ recorded' = [a \in Addrs |-> None]
  /\ UNCHANGED <<content, writer_pointer, reader_pointer, operations_log,
                 read_handle_inner, wnr, wnn, node_pointer, epoch_counter,
                 is_active, next, made, addr, hvars, mutated, published, floor,
                 quiet>>
  /\ DropNodes(allocated, reader_counter, freed)

\* the snapshot recording every node, whatever the parity of its epoch
ReadInFlightAlways(e) == TRUE

\* the snapshot recording no read as in flight
ReadInFlightNever(e) == FALSE

\* WriteHandle::get_epoch_counters, line 99: epoch_counter % 2 != 0
ReadInFlight(e) == e % 2 # 0

\* a get_epoch that increments the counter it reads
EpochAfterFetchAdd(e) == e + 1

\* ReadHandleInner::get_epoch: epoch_counter.load(Acquire) leaves the counter
EpochAfterLoad(e) == e

\* WriteHandle::get_epoch_counters: get_epoch and the insert of an odd epoch
EpRead ==
  /\ wpc = "ep_read"
  /\ IF ReadInFlight(epoch_counter[wcur])
     THEN /\ epoch_counters' =
               [epoch_counters EXCEPT ![addr[wcur]] = epoch_counter[wcur]]
          /\ recorded' = [recorded EXCEPT ![addr[wcur]] = wcur]
     ELSE UNCHANGED <<epoch_counters, recorded>>
  /\ epoch_counter' = [epoch_counter EXCEPT ![wcur] = EpochAfterLoad(@)]
  /\ wpc' = "ep_next"
  /\ UNCHANGED <<bvars, writer_pointer, reader_pointer, operations_log,
                 read_handle_inner, wcur, wnr, wnn, node_pointer,
                 is_active, next, hvars,
                 mutated, published, bcast, floor, quiet>>
  /\ KeepNodes

\* WriteHandle::get_epoch_counters: reader_ptr = reader.next.load_full()
EpNext ==
  /\ wpc = "ep_next"
  /\ IF next[wcur] # None
     THEN wcur' = next[wcur] /\ wpc' = "ep_read"
     ELSE wcur' = read_handle_inner /\ wpc' = "wt_load"
  /\ UNCHANGED <<content, writer_pointer, reader_pointer, operations_log,
                 read_handle_inner, wnr, wnn, epoch_counters, node_pointer,
                 epoch_counter, is_active, next, made, addr, hvars, histvars>>
  /\ DropNodes(allocated, reader_counter, freed)

\* wait_epoch_counters, lines 114 and 125: next_reader_ptr = reader.next.load()
WtLoad ==
  /\ wpc = "wt_load"
  /\ wnr' = next[wcur]
  /\ wpc' = IF next[wcur] = None THEN "wt_spin" ELSE "wt_check"
  /\ UNCHANGED <<content, writer_pointer, reader_pointer, operations_log,
                 read_handle_inner, wcur, wnn, epoch_counters, node_pointer,
                 epoch_counter, is_active, next, made, addr, hvars, histvars>>
  /\ DropNodes(allocated, reader_counter, freed)

\* wait_epoch_counters, lines 117-122: is_active() of the successor, and the
\* load of its own next for the compare_and_swap
WtCheck ==
  /\ wpc = "wt_check"
  /\ IF is_active[wnr]
     THEN wpc' = "wt_spin" /\ wnr' = None /\ wnn' = None
     ELSE wpc' = "wt_cas" /\ wnn' = next[wnr] /\ wnr' = wnr
  /\ UNCHANGED <<content, writer_pointer, reader_pointer, operations_log,
                 read_handle_inner, wcur, epoch_counters, node_pointer,
                 epoch_counter, is_active, next, made, addr, hvars, histvars>>
  /\ DropNodes(allocated, reader_counter, freed)

\* wait_epoch_counters, lines 124-125: after a successful compare_and_swap the
\* loop loads reader.next again
AfterPrune == "wt_load"

\* wait_epoch_counters, lines 120-128: reader.next.compare_and_swap(next_reader,
\* next_reader.next) and the test of what it returned
WtCas ==
  /\ wpc = "wt_cas"
  /\ IF option_ptr_compare(next[wcur], wnr)
     THEN next' = [next EXCEPT ![wcur] = wnn] /\ wpc' = AfterPrune
     ELSE next' = next /\ wpc' = "wt_spin"
  /\ wnr' = None /\ wnn' = None
  /\ UNCHANGED <<content, writer_pointer, reader_pointer, operations_log,
                 read_handle_inner, wcur, epoch_counters, node_pointer,
                 epoch_counter, is_active, made, addr, hvars, histvars>>
  /\ DropNodes(allocated, reader_counter, freed)

\* wait_epoch_counters, lines 132-138: leave the spin loop once the node is
\* not in the map or its epoch differs from the snapshot
WtSpin ==
  /\ wpc = "wt_spin"
  /\ \/ epoch_counters[addr[wcur]] = NoEpoch
     \/ epoch_counter[wcur] # epoch_counters[addr[wcur]]
  /\ wpc' = "wt_next"
  /\ UNCHANGED <<bvars, writer_pointer, reader_pointer, operations_log,
                 read_handle_inner, wcur, wnr, wnn, epoch_counters,
                 node_pointer, epoch_counter, is_active, next, hvars, histvars>>
  /\ KeepNodes

\* wait_epoch_counters, line 140: reader_ptr = reader.next.load_full()
WtNext ==
  /\ wpc = "wt_next"
  /\ IF next[wcur] # None
     THEN wcur' = next[wcur] /\ wpc' = "wt_load"
     ELSE wcur' = None /\ wpc' = "swap"
  /\ UNCHANGED <<content, writer_pointer, reader_pointer, operations_log,
                 read_handle_inner, wnr, wnn, epoch_counters, node_pointer,
                 epoch_counter, is_active, next, made, addr, hvars, histvars>>
  /\ DropNodes(allocated, reader_counter, freed)

\* WriteHandle::publish, lines 64-74: mem::swap, mem::take, the replay loop
SwapReplay ==
  /\ wpc = "swap"
  /\ writer_pointer' = reader_pointer
  /\ reader_pointer' = writer_pointer
  /\ operations_log' = <<>>
  /\ WriteBuffer(reader_pointer, Replay(content[reader_pointer], operations_log))
  /\ wpc' = "idle"
  /\ epoch_counters' = [a \in Addrs |-> NoEpoch]
  /\ published' = content'[writer_pointer']
  /\ recorded' = [a \in Addrs |-> None]
  /\ quiet' = TRUE
  /\ UNCHANGED <<freed, read_handle_inner, wcur, wnr, wnn, nvars, hvars,
                 mutated, bcast, floor>>

\* impl Drop for WriteHandle, then the drop of its fields
WriterDrop ==
  /\ wpc = "idle"
  /\ wpc' = "dropped"
  /\ read_handle_inner' = None
  /\ UNCHANGED <<content, writer_pointer, reader_pointer, operations_log,
                 wcur, wnr, wnn, epoch_counters, node_pointer, epoch_counter,
                 is_active, next, made, addr, hvars, histvars>>
  /\ DropNodes(allocated, reader_counter,
               [freed EXCEPT ![writer_pointer] = @ + 1])

\* ------------------------------------------------------------- ReadHandle
RECURSIVE EpochSum(_, _)
EpochSum(e, n) == IF n = 0 THEN 0 ELSE e[n] + EpochSum(e, n - 1)

\* a reference() that increments the epoch at every nesting level
OutermostReadAlways(refs) == TRUE

\* ReadHandle::reference, line 63: `if refs == 0`
OutermostRead(refs) == refs = 0

\* ReadHandle::reference, lines 57-67: the epoch increment of the outermost read
RefBegin(h) ==
  /\ hpc[h] = "idle"
  /\ ref_counter[h] < MaxNest
  /\ ref_counter[h] = 0 => EpochSum(epoch_counter, MaxNodes) + 2 <= MaxEpoch
  /\ epoch_counter' =
       IF OutermostRead(ref_counter[h])
       THEN [epoch_counter EXCEPT ![h] = @ + 1] ELSE epoch_counter
  /\ ref_counter' = [ref_counter EXCEPT ![h] = @ + 1]
  /\ hpc' = [hpc EXCEPT ![h] = "ref_load"]
  /\ floor' = [floor EXCEPT ![h] = bcast]
  /\ UNCHANGED <<bvars, wvars, node_pointer, is_active, next, reader_counter,
                 allocated, made, addr, guards, old_next, new, loaded,
                 mutated, published, bcast, recorded, quiet>>

\* a load of the pointer that waits until the writer is outside publish
RefLoadLocked(h) ==
  /\ hpc[h] = "ref_load"
  /\ wpc \in {"idle", "dropped"}
  /\ guards' = [guards EXCEPT ![h][node_pointer[h]] = @ + 1]
  /\ hpc' = [hpc EXCEPT ![h] = "idle"]
  /\ floor' = [floor EXCEPT ![h] = <<>>]
  /\ UNCHANGED <<bvars, wvars, nvars, ref_counter, old_next, new, loaded,
                 mutated, published, bcast, recorded, quiet>>

\* new_guard: inner = read_handel_inner.load_pointer()
RefLoad(h) ==
  /\ hpc[h] = "ref_load"
  /\ guards' = [guards EXCEPT ![h][node_pointer[h]] = @ + 1]
  /\ hpc' = [hpc EXCEPT ![h] = "idle"]
  /\ floor' = [floor EXCEPT ![h] = <<>>]
  /\ UNCHANGED <<bvars, wvars, nvars, ref_counter, old_next, new, loaded,
                 mutated, published, bcast, recorded, quiet>>

\* a release that never increments the epoch
LastGuardNever(refs) == FALSE

\* new_guard, line 25: `if refs == 0` in the drop_callback
LastGuard(refs) == refs = 0

\* impl Drop for Guard: the drop_callback of new_guard
Release(h, b) ==
  /\ hpc[h] = "idle"
  /\ guards[h][b] > 0
  /\ guards' = [guards EXCEPT ![h][b] = @ - 1]
  /\ ref_counter' = [ref_counter EXCEPT ![h] = @ - 1]
  /\ epoch_counter' =
       IF LastGuard(ref_counter[h] - 1)
       THEN [epoch_counter EXCEPT ![h] = @ + 1] ELSE epoch_counter
  /\ UNCHANGED <<bvars, wvars, node_pointer, is_active, next, reader_counter,
                 allocated, made, addr, hpc, old_next, new, loaded, histvars>>

\* The drop of a reader handle, noted when it happens while publish runs
ConcurrentStep == quiet' = (quiet /\ wpc \in {"idle", "dropped"})

\* The addresses Arc::new may return for the node numbered k: one never used
\* before (numbered k as well), or the address of a node already deallocated
\* that no allocated node occupies.
NewAddrs(k) ==
  {k} \cup ({addr[d] : d \in (1..made) \ allocated}
             \ {addr[n] : n \in allocated})

\* clone_as_ptr, lines 55-71: old_next = self.next.load(),
\* reader_counter.fetch_add(1) and Arc::new of a node with a null
\* reader_pointer and next = old_next
CloneBegin(h) ==
  /\ hpc[h] = "idle"
  /\ made < MaxNodes
  /\ LET k == made + 1
     IN /\ made' = k
        /\ \E a \in NewAddrs(k) : addr' = [addr EXCEPT ![k] = a]
        /\ new' = [new EXCEPT ![h] = k]
        /\ node_pointer' = [node_pointer EXCEPT ![k] = NullPtr]
        /\ epoch_counter' = [epoch_counter EXCEPT ![k] = 0]
        /\ is_active' = [is_active EXCEPT ![k] = TRUE]
        /\ next' = [next EXCEPT ![k] = next[h]]
        /\ allocated' = allocated \cup {k}
  /\ old_next' = [old_next EXCEPT ![h] = next[h]]
  /\ reader_counter' = reader_counter + 1
  /\ hpc' = [hpc EXCEPT ![h] = "cl_cas"]
  /\ UNCHANGED <<bvars, wvars, ref_counter, guards, loaded, mutated,
                 published, bcast, floor, recorded>>
  /\ UNCHANGED quiet

\* clone_as_ptr, lines 73-78: self.next.compare_and_swap(&old_next, Some(new))
CloneCas(h) ==
  /\ hpc[h] = "cl_cas"
  /\ IF option_ptr_compare(next[h], old_next[h])
     THEN /\ next' = [next EXCEPT ![h] = new[h]]
          /\ hpc' = [hpc EXCEPT ![h] = "cl_ldptr"]
          /\ old_next' = [old_next EXCEPT ![h] = None]
     ELSE /\ next' = next
          /\ hpc' = [hpc EXCEPT ![h] = "cl_reload"]
          /\ old_next' = old_next
  /\ UNCHANGED <<content, wvars, node_pointer, epoch_counter, is_active, made, addr,
                 ref_counter, guards, new, loaded, mutated,
                 published, bcast, floor, recorded>>
  /\ DropNodes(allocated, reader_counter, freed)
  /\ UNCHANGED quiet

\* clone_as_ptr, lines 79-81: old_next = self.next.load(); new.next = old_next
CloneReload(h) ==
  /\ hpc[h] = "cl_reload"
  /\ old_next' = [old_next EXCEPT ![h] = next[h]]
  /\ next' = [next EXCEPT ![new[h]] = next[h]]
  /\ hpc' = [hpc EXCEPT ![h] = "cl_cas"]
  /\ UNCHANGED <<content, wvars, node_pointer, epoch_counter, is_active, made, addr,
                 ref_counter, guards, new, loaded, mutated,
                 published, bcast, floor, recorded>>
  /\ DropNodes(allocated, reader_counter, freed)
  /\ UNCHANGED quiet

\* clone_as_ptr, line 87: self.reader_pointer.load(Acquire)
CloneLoadPtr(h) ==
  /\ hpc[h] = "cl_ldptr"
  /\ loaded' = [loaded EXCEPT ![h] = node_pointer[h]]
  /\ hpc' = [hpc EXCEPT ![h] = "cl_fix"]
  /\ UNCHANGED <<bvars, wvars, nvars, ref_counter, guards, old_next, new,
                 mutated,
                 published, bcast, floor, recorded>>
  /\ UNCHANGED quiet

\* a compare_exchange that never stores
compare_exchange_never(cell, current, desired) == cell

\* a plain store in place of the compare_exchange
compare_exchange_store(cell, current, desired) == desired

\* AtomicPtr::compare_exchange(current, new) on a cell holding `cell`: the
\* value the cell holds afterwards
compare_exchange(cell, current, desired) == IF cell = current THEN desired ELSE cell

\* clone_as_ptr, lines 85-92: new.reader_pointer.compare_exchange(null, loaded)
\* and the return of the new handle (ReadHandle::clone)
CloneFix(h) ==
  /\ hpc[h] = "cl_fix"
  /\ node_pointer' = [node_pointer EXCEPT
                        ![new[h]] = compare_exchange(@, NullPtr, loaded[h])]
  /\ hpc' = [hpc EXCEPT ![h] = "idle", ![new[h]] = "idle"]
  /\ new' = [new EXCEPT ![h] = None]
  /\ loaded' = [loaded EXCEPT ![h] = NullPtr]
  /\ UNCHANGED <<bvars, wvars, epoch_counter, is_active, next, reader_counter,
                 allocated, made, addr, ref_counter, guards, old_next, mutated,
                 published, bcast, floor, recorded>>
  /\ UNCHANGED quiet

\* impl Drop for ReadHandle: inner.set_inactive(), then the drop of the field
\* ReadHandle::inner. A handle is dropped only when no Guard borrows it.
DropHandle(h) ==
  /\ hpc[h] = "idle"
  /\ ref_counter[h] = 0
  /\ is_active' = [is_active EXCEPT ![h] = FALSE]
  /\ hpc' = [hpc EXCEPT ![h] = "gone"]
  /\ UNCHANGED <<content, wvars, node_pointer, epoch_counter, next,
                 made, addr, ref_counter, guards, old_next, new, loaded, mutated,
                 published, bcast, floor, recorded>>
  /\ DropNodes(allocated, reader_counter, freed)
  /\ ConcurrentStep

Writer ==
  \/ \E op \in Ops : Mutate(op)
  \/ PublishEnter \/ HeadStep \/ BcSwap \/ BcNext \/ EpRead \/ EpNext
  \/ WtLoad \/ WtCheck \/ WtCas \/ WtSpin \/ WtNext \/ SwapReplay
  \/ WriterDrop

Reader(h) ==
  \/ RefBegin(h) \/ RefLoad(h)
  \/ \E b \in Buffers : Release(h, b)
  \/ CloneBegin(h) \/ CloneCas(h) \/ CloneReload(h)
  \/ CloneLoadPtr(h) \/ CloneFix(h)
  \/ DropHandle(h)

Next == Writer \/ \E h \in Nodes : Reader(h)

Spec == Init /\ [][Next]_vars


\* ------------------------------------------------------------------ claims
WriterOutsidePublish == wpc \in {"idle", "dropped"}

\* C1: once a publish that replayed staged mutations has returned, and until the
\* next publish runs, the reference() of every live handle (the original and
\* every clone) loads a buffer holding the value as_ref() gave when that
\* publish returned.
C1_ReferenceSeesPublished ==
  [][\A h \in Nodes :
       (RefLoad(h) /\ WriterOutsidePublish /\ published # NoPub)
         => /\ node_pointer[h] \in Buffers
            /\ freed[node_pointer[h]] = 0
            /\ content[node_pointer[h]] = published]_vars

\* a clone about to load its pointer after a publish of every mutation returned
C1_Witness ==
  \E h \in Nodes \ {1} :
    /\ hpc[h] = "ref_load" /\ wpc = "idle"
    /\ Len(published) = MaxOps /\ published # NoPub
    /\ content[node_pointer[h]] = published

\* C2: while a Guard is outstanding the buffer it borrows is neither written
\* (by mutate or by the replay of publish) nor freed, in every interleaving.
C2_GuardedBufferStable ==
  [][\A b \in Buffers :
       (\E h \in Nodes : guards[h][b] > 0)
         => content'[b] = content[b] /\ freed'[b] = freed[b] /\ freed[b] = 0]_vars

\* the writer spins in publish on a handle whose guard borrows the old front
\* buffer, the one the replay is about to write
C2_Witness ==
  /\ wpc = "wt_spin"
  /\ epoch_counters[addr[wcur]] = epoch_counter[wcur]
  /\ guards[wcur][reader_pointer] > 0
  /\ operations_log # <<>>

\* C3: mutate changes only the back buffer and the staged log: every node's
\* pointer, epoch, link and flag and the front buffer's content are unchanged;
\* before any publish the writer's as_ref() shows the mutation while every
\* reference() still loads the value as constructed.
C3_MutateInvisible ==
  [][/\ \A op \in Ops : Mutate(op) =>
          /\ UNCHANGED <<node_pointer, epoch_counter, next, is_active,
                         read_handle_inner, writer_pointer, reader_pointer>>
          /\ content'[reader_pointer] = content[reader_pointer]
          /\ operations_log' = Append(operations_log, op)
          /\ published = NoPub =>
               content'[writer_pointer] = Append(content[writer_pointer], op)
     /\ \A h \in Nodes :
          (RefLoad(h) /\ published = NoPub /\ wpc = "idle")
            => content[node_pointer[h]] = <<>>]_vars

\* a reference() about to load after a mutate and before any publish
C3_Witness ==
  \E h \in Nodes :
    /\ hpc[h] = "ref_load" /\ wpc = "idle" /\ published = NoPub
    /\ content[writer_pointer] # <<>> /\ operations_log # <<>>
    /\ content[node_pointer[h]] = <<>>

\* C4: a reference() that begins after a publish finished its broadcast walk
\* loads a buffer holding that publish's data or a later publish's data.
C4_ReadAfterBroadcast ==
  [][\A h \in Nodes :
       RefLoad(h) => /\ node_pointer[h] \in Buffers
                     /\ IsPrefix(floor[h], content[node_pointer[h]])]_vars

\* a reference() begun after the broadcast walk while the publish still runs
C4_Witness ==
  \E h \in Nodes :
    /\ hpc[h] = "ref_load" /\ floor[h] # <<>>
    /\ wpc \in {"ep_read", "ep_next", "wt_load", "wt_spin", "wt_next", "swap"}
    /\ published = NoPub

\* C5: when clone() returns, the new node's pointer is set and equals the
\* origin's pointer, unless a broadcast walk stands between the two nodes and
\* is about to store the published pointer in the new node; and whenever no
\* publish is running every live handle, origin or clone, reads through the
\* writer's front buffer.
C5_CloneReturn(h) ==
  /\ node_pointer'[new[h]] \in Buffers
  /\ \/ node_pointer'[new[h]] = node_pointer[h]
     \/ wpc = "bc_next" /\ wcur = h
     \/ wpc = "bc_swap" /\ wcur = new[h]

C5_CloneSeesOrigin ==
  /\ [](WriterOutsidePublish
          => \A h \in LiveHandles : node_pointer[h] = reader_pointer)
  /\ [][\A h \in Nodes : CloneFix(h) => C5_CloneReturn(h)]_vars

\* a clone made after a publish returned is about to resolve its placeholder
C5_Witness ==
  \E h \in Nodes :
    /\ hpc[h] = "cl_fix" /\ node_pointer[new[h]] = NullPtr
    /\ wpc = "idle" /\ published # NoPub /\ loaded[h] = reader_pointer
    /\ reader_pointer = 2

\* C6: with handles dropped (the root's among them) and at least one left,
\* publish is never held up by a dropped handle: every step of publish is
\* enabled except the spin on a node whose live handle has a read in flight;
\* and when publish returns every live handle reads through the new front
\* buffer, which holds the writer's value.
WriterInPublish == wpc \notin {"idle", "dropped"}

WriterStep ==
  \/ HeadStep \/ BcSwap \/ BcNext \/ EpRead \/ EpNext
  \/ WtLoad \/ WtCheck \/ WtCas \/ WtSpin \/ WtNext \/ SwapReplay

C6_PublishNotBlocked ==
  WriterInPublish =>
    \/ ENABLED WriterStep
    \/ /\ wpc = "wt_spin" /\ wcur \in LiveHandles
       /\ is_active[wcur] /\ ref_counter[wcur] > 0

C6_PublishReachesLive ==
  SwapReplay =>
    \A h \in LiveHandles :
      /\ node_pointer[h] = reader_pointer'
      /\ freed'[reader_pointer'] = 0
      /\ content'[node_pointer[h]] = content'[writer_pointer']

C6_DroppedHandlesPublish ==
  [](C6_PublishNotBlocked) /\ [][C6_PublishReachesLive]_vars

\* the root's handle and one clone were dropped before the publish pruned the
\* head; the handle that is left sees the published value
C6_Witness ==
  /\ wpc = "idle" /\ published # NoPub /\ published # <<>>
  /\ LiveHandles = {2} /\ \A h \in Nodes \ {2} : hpc[h] = "gone"
  /\ read_handle_inner = 2
  /\ content[node_pointer[2]] = published

NoLiveReader == LiveHandles = {}

\* C7: no buffer is freed twice, and once the writer handle and every reader
\* handle are dropped each of the two buffers has been freed exactly once.
C7_FreedExactlyOnce ==
  /\ \A b \in Buffers : freed[b] <= 1
  /\ (wpc = "dropped" /\ NoLiveReader) => \A b \in Buffers : freed[b] = 1

\* C8: a publish called with staged operations and no live reader runs the
\* swap and replay (it does not return early), and after it the staged log is
\* empty and the two buffers hold equal content.
C8_ZeroReaderPublishReplays ==
  (wpc = "idle" /\ NoLiveReader) =>
    IF operations_log # <<>>
    THEN ENABLED (PublishEnter /\ wpc' = "head")
    ELSE content[writer_pointer] = content[reader_pointer]

\* C9: a publish called with an empty staged log returns at once and changes
\* nothing: no pointer, epoch, link, root, buffer or writer field.
C9_EmptyPublishNoOp ==
  (wpc = "idle" /\ operations_log = <<>>)
    => ~ENABLED (PublishEnter /\ vars' # vars)

\* an empty publish is called while a dropped root is still linked, which a
\* publish with staged operations would prune
C9_Witness ==
  /\ wpc = "idle" /\ operations_log = <<>> /\ published # NoPub
  /\ read_handle_inner # None /\ ~is_active[read_handle_inner]
  /\ LiveHandles # {}

\* C10: reference() never waits: whatever the writer and the other handles are
\* doing, its first step (the epoch increment of an outermost read) and its
\* second step (the load of the pointer) are enabled, and the second returns.
CanReference(h) ==
  /\ hpc[h] = "idle"
  /\ ref_counter[h] < MaxNest
  /\ ref_counter[h] = 0 => EpochSum(epoch_counter, MaxNodes) + 2 <= MaxEpoch

C10_ReferenceNeverBlocks ==
  \A h \in Nodes :
    /\ CanReference(h) => ENABLED (RefBegin(h) /\ hpc'[h] = "ref_load")
    /\ hpc[h] = "ref_load" => ENABLED (RefLoad(h) /\ hpc'[h] = "idle")

\* a reference() is between its two steps while the writer spins in publish
\* on another handle's read
C10_Witness ==
  /\ wpc = "wt_spin" /\ ~ENABLED WtSpin
  /\ \E h \in Nodes \ {wcur} : hpc[h] = "ref_load"

\* C11: publish waits only on a node whose own epoch was odd when the snapshot
\* was taken: whenever the spin loop of wait_epoch_counters cannot leave, the
\* node it spins on is the node the snapshot recorded, so only a guard that
\* was outstanding at the snapshot can hold publish.
C11_WaitsOnlyOnSnapshot ==
  (wpc = "wt_spin" /\ ~ENABLED WtSpin) => recorded[addr[wcur]] = wcur

\* C12: in every state a node's epoch is odd exactly when the nested-read
\* count of its handle is above zero; a reference() increments the epoch by
\* one only when it takes the count from 0 to 1, a guard release only when it
\* takes the count back to 0, and a nested reference() or release leaves it.
C12_Parity ==
  \A h \in Nodes : (epoch_counter[h] % 2 = 1) <=> (ref_counter[h] > 0)

C12_EpochStep(h) ==
  /\ RefBegin(h) =>
        /\ ref_counter'[h] = ref_counter[h] + 1
        /\ epoch_counter'[h] =
             epoch_counter[h] + (IF ref_counter[h] = 0 THEN 1 ELSE 0)
  /\ (\E b \in Buffers : Release(h, b)) =>
        /\ ref_counter'[h] = ref_counter[h] - 1
        /\ epoch_counter'[h] =
             epoch_counter[h] + (IF ref_counter'[h] = 0 THEN 1 ELSE 0)

C12_EpochParity ==
  [](C12_Parity) /\ [][\A h \in Nodes : C12_EpochStep(h)]_vars

\* a handle holds two nested guards, one taken before the broadcast of a
\* publish and one after it, so they borrow different buffers
C12_Witness ==
  \E h \in Nodes :
    /\ ref_counter[h] = 2 /\ hpc[h] = "idle"
    /\ guards[h][1] = 1 /\ guards[h][2] = 1
    /\ epoch_counter[h] % 2 = 1

\* C13: whenever the writer is outside publish the back buffer holds the front
\* buffer's content with the staged log applied in the order mutate received
\* it; a publish called with staged operations does not return leaving them
\* staged, and when it returns the log is empty, the two buffers hold equal
\* content and that content is the operations in the order of the mutate calls.
C13_BackIsFrontPlusLog ==
  wpc = "idle" =>
    content[writer_pointer] = Replay(content[reader_pointer], operations_log)

C13_PublishDrainsLog ==
  (wpc = "idle" /\ operations_log # <<>>)
    => ~ENABLED (PublishEnter /\ wpc' = "idle")

C13_AfterReplay ==
  SwapReplay =>
    /\ operations_log' = <<>>
    /\ content'[writer_pointer'] = content'[reader_pointer']
    /\ content'[writer_pointer'] = [i \in 1..mutated |-> i]

C13_BufferEquivalence ==
  /\ [](C13_BackIsFrontPlusLog)
  /\ [](C13_PublishDrainsLog)
  /\ [][C13_AfterReplay]_vars

\* C14: in every interleaving of a clone() with a publish, the one
\* compare_exchange of clone() leaves the new node's pointer set when clone()
\* returns: the origin's loaded pointer if the node still held the placeholder,
\* the pointer the broadcast walk stored otherwise; and whenever no publish is
\* running every handle returned by clone() points to the writer's front
\* buffer and not to its back buffer.
C14_CloneFixStep(h) ==
  CloneFix(h) =>
    /\ node_pointer'[new[h]] # NullPtr
    /\ node_pointer'[new[h]] =
         IF node_pointer[new[h]] = NullPtr THEN loaded[h]
         ELSE node_pointer[new[h]]

C14_ReturnedOnFront ==
  wpc = "idle" =>
    \A h \in LiveHandles :
      node_pointer[h] = reader_pointer /\ node_pointer[h] # writer_pointer

C14_CorrectiveCasSuffices ==
  [](C14_ReturnedOnFront) /\ [][\A h \in Nodes : C14_CloneFixStep(h)]_vars

\* the broadcast walk reached the new node after clone() loaded the origin's
\* old pointer: the compare_exchange is about to fail and must not store it
C14_Witness ==
  \E h \in Nodes :
    /\ hpc[h] = "cl_fix" /\ wpc \notin {"idle", "dropped"}
    /\ node_pointer[new[h]] # NullPtr
    /\ loaded[h] # node_pointer[new[h]]

\* C15: when a publish with staged operations, during which no reader handle
\* was dropped, returns, the writer's root is none or an active node and every
\* node reachable from the root is active: the nodes of the handles dropped
\* before it began are unlinked, at the head, in the middle, at the tail, and
\* several in a row. (A clone() running beside the publish does not matter,
\* so the case of the claim, no clone and no drop beside it, is included.)
Registry(root, nx) == Reach({root} \ {None}, nx, MaxNodes)

C15_NoInactiveReachable ==
  [][(SwapReplay /\ quiet) =>
       \A n \in Registry(read_handle_inner', next') : is_active'[n]]_vars

\* a first publish, undisturbed, is about to return with the root's handle
\* alive and both clones dropped before it began: two dead nodes in a row,
\* the second at the tail, were unlinked by the prune loop
C15_Witness ==
  /\ wpc = "swap" /\ quiet /\ published = NoPub
  /\ hpc = [h \in Nodes |-> IF h = 1 THEN "idle" ELSE "gone"]
  /\ read_handle_inner = 1 /\ next[1] = None

\* C16: no step of the writer (mutate, every step of publish with its walks
\* and its pruning, the drop of the writer handle) changes the epoch of any
\* node; the epoch of node n changes only in a reference() or a guard release
\* of the handle that owns n.
C16_WriterLeavesEpochs ==
  epoch_counter' # epoch_counter => ~Writer

C16_OnlyOwnerChangesEpoch ==
  \A n \in Nodes :
    epoch_counter'[n] # epoch_counter[n]
      => RefBegin(n) \/ \E b \in Buffers : Release(n, b)

C16_WriterNeverChangesEpoch ==
  [][C16_WriterLeavesEpochs /\ C16_OnlyOwnerChangesEpoch]_vars

\* the snapshot walk has read an odd epoch and recorded it; the counter still
\* holds the value read
C16_Witness ==
  /\ wpc = "ep_next" /\ epoch_counter[wcur] % 2 = 1
  /\ epoch_counters[addr[wcur]] = epoch_counter[wcur]
  /\ recorded[addr[wcur]] = wcur

\* C17: the buffer the writer is about to use is still allocated: the buffer
\* behind writer_pointer whenever mutate, as_ref or the drop of the writer
\* handle can run, and the buffer the replay of publish writes (the one behind
\* reader_pointer just before the swap).
C17_WriterBufferAllocated ==
  /\ wpc = "idle" => freed[writer_pointer] = 0
  /\ wpc = "swap" => freed[reader_pointer] = 0

\* C18: while the writer handle exists, the list that starts at the writer's
\* root has no cycle and contains the node of every live handle (constructed,
\* or returned by clone()); no step, in particular no compare_and_swap of the
\* prune loop and no head pruning, takes an active node out of the list; and
\* once a broadcast walk has finished every live handle's node holds the
\* pointer it broadcast.
C18_Acyclic ==
  \A n \in Nodes : n \notin Reach({next[n]} \ {None}, next, MaxNodes)

C18_LiveReachable ==
  wpc # "dropped" =>
    \A h \in LiveHandles : h \in Registry(read_handle_inner, next)

C18_WalkReachedAll ==
  wpc \in {"ep_read", "ep_next", "wt_load", "wt_check", "wt_cas", "wt_spin",
           "wt_next", "swap"}
    => \A h \in LiveHandles : node_pointer[h] = writer_pointer

C18_ActiveStaysLinked ==
  (wpc' # "dropped" /\ <<next, read_handle_inner>>' # <<next, read_handle_inner>>)
    => \A n \in Registry(read_handle_inner, next) :
         is_active[n] => n \in Registry(read_handle_inner', next')

C18_RegistryReachability ==
  /\ [](C18_Acyclic /\ C18_LiveReachable /\ C18_WalkReachedAll)
  /\ [][C18_ActiveStaysLinked]_vars

\* the prune loop is about to compare_and_swap a dead successor away, and a
\* clone() that has returned has linked its node in front of that successor
C18_Witness ==
  /\ wpc = "wt_cas" /\ ~option_ptr_compare(next[wcur], wnr)
  /\ next[wcur] \in LiveHandles /\ hpc[next[wcur]] = "idle"
  /\ next[next[wcur]] = wnr

\* C19: the active flag of a node never goes back from false to true, and a
\* node whose flag is false has an even epoch, a nested-read count of zero and
\* no guard borrowing a buffer through it; so the node a prune
\* compare_and_swap unlinks, even one the epoch snapshot recorded as reading,
\* has no read in flight.
C19_InactiveIsQuiescent ==
  \A n \in 1..made :
    ~is_active[n] =>
      /\ epoch_counter[n] % 2 = 0
      /\ ref_counter[n] = 0 /\ hpc[n] = "gone"
      /\ \A b \in Buffers : guards[n][b] = 0

C19_ActiveMonotone ==
  \A n \in 1..made : ~is_active[n] => ~is_active'[n]

C19_PruneSkipsNoRead ==
  (WtCas /\ next' # next) =>
    /\ ~is_active[wnr]
    /\ \A b \in Buffers : guards[wnr][b] = 0

C19_InactiveEvenEpoch ==
  /\ [](C19_InactiveIsQuiescent)
  /\ [][C19_ActiveMonotone /\ C19_PruneSkipsNoRead]_vars

\* the prune loop is about to unlink a node the snapshot recorded with an odd
\* epoch: its guard was released and its handle dropped after the snapshot
C19_Witness ==
  /\ wpc = "wt_cas" /\ option_ptr_compare(next[wcur], wnr)
  /\ ~is_active[wnr]
  /\ recorded[addr[wnr]] = wnr
  /\ epoch_counters[addr[wnr]] % 2 = 1
  /\ epoch_counter[wnr] = epoch_counters[addr[wnr]] + 1

TypeOK ==
  /\ addr \in [Nodes -> Addrs \cup {NullAddr}]
  /\ epoch_counters \in [Addrs -> 0..MaxEpoch \cup {NoEpoch}]
  /\ recorded \in [Addrs -> Nodes \cup {None}]
  /\ quiet \in BOOLEAN
  /\ content \in [Buffers -> Values]
  /\ freed \in [Buffers -> 0..3]
  /\ writer_pointer \in Buffers /\ reader_pointer \in Buffers
  /\ read_handle_inner \in Nodes \cup {None}
  /\ node_pointer \in [Nodes -> Buffers \cup {NullPtr}]
  /\ epoch_counter \in [Nodes -> 0..MaxEpoch]
  /\ allocated \subseteq 1..made
====
